---- MODULE Spec2Model ----
(***************************************************************************)
(* MGCX, the lag-aware multiscale independence test of                     *)
(* mgcpy/independence_tests/mgcx.py: the lag search (test_statistic), the  *)
(* block-bootstrap p-value (p_value, exact path run through joblib) and    *)
(* the subsampled normal approximation (_fast_p_value).                    *)
(*                                                                         *)
(* Abstractions.                                                           *)
(*  - A matrix is a view: the source it was cut from and the half-open     *)
(*    range [lo, hi) of its rows (every slice in the code is a contiguous  *)
(*    and symmetric row/column range).  A block-permuted copy of Y is its  *)
(*    own source, "permuted_Y", with as many rows as the index sequence    *)
(*    that built it.                                                       *)
(*  - The multiscale correlation engine (MGC) is external: at each call    *)
(*    the environment answers with a statistic and a scale, or raises.     *)
(*  - Reals are exact rationals.  A statistic computed on n rows is kept   *)
(*    as its numerator over the denominator n.                             *)
(***************************************************************************)
EXTENDS Integers, Sequences, FiniteSets, TLC

VARIABLES
    ctor_arg,                  \* how the constructor was called
    max_lag,                   \* self.max_lag
    test_statistic_,           \* self.test_statistic_
    test_statistic_metadata_,  \* self.test_statistic_metadata_
    p_value_,                  \* self.p_value_
    p_value_metadata_,         \* self.p_value_metadata_
    pc,                        \* position of the running p_value call
    frame,                     \* arguments and locals of the latest call
    workers,                   \* the joblib batch: one entry per repetition
    ret,                       \* what the latest call returned or raised
    engine_calls,              \* engine calls of the latest direct test_statistic
    stat_of,                   \* arguments of the call that last wrote test_statistic_
    perm_n,                    \* n handed to the index generator (SpecPerm)
    permuted_indices           \* the index sequence it produced (SpecPerm)

vars == <<ctor_arg, max_lag, test_statistic_, test_statistic_metadata_,
          p_value_, p_value_metadata_, pc, frame, workers, ret,
          engine_calls, stat_of, perm_n, permuted_indices>>

obj == <<test_statistic_, test_statistic_metadata_, p_value_, p_value_metadata_>>

-----------------------------------------------------------------------------
(* Bounds of the model *)

MaxN == 3          \* sample counts 1..MaxN in Spec
MaxLag == 1        \* explicit max_lag arguments 0..MaxLag
MaxRep == 2        \* replication_factor 1..MaxRep
MaxPermN == 7      \* sample counts 1..MaxPermN in SpecPerm
MaxFastExtra == 0  \* SpecFast: sample counts up to subsample_size + MaxFastExtra

EngineStats == {-1, 0, 1}      \* statistics the engine may answer
Scales == {1, 2}               \* optimal scales the engine may answer

-----------------------------------------------------------------------------
(* Values *)

None == << >>
Some(k) == <<k>>

Max2(a, b) == IF a >= b THEN a ELSE b
Min2(a, b) == IF a <= b THEN a ELSE b

RECURSIVE SumSeq(_)
SumSeq(s) == IF s = << >> THEN 0 ELSE Head(s) + SumSeq(Tail(s))

\* math.ceil(math.sqrt(n)) and int(np.ceil(np.sqrt(n)))
CeilSqrt(n) == CHOOSE k \in 0..n : k * k >= n /\ \A m \in 0..(k - 1) : m * m < n

Unset == [set |-> FALSE]
NoMeta == [optimal_lag |-> 0, optimal_scale |-> 0, dependence_by_lag |-> << >>]

-----------------------------------------------------------------------------
(* Matrices as views *)

FullView(src, rows) == [src |-> src, lo |-> 0, hi |-> rows]
Rows(v) == v.hi - v.lo

\* Python's normalisation of one slice bound against a length
PyIndex(i, len) == IF i < 0 THEN Max2(i + len, 0) ELSE Min2(i, len)

\* m[start:stop, start:stop]
Slice(v, start, stop) ==
    LET len == Rows(v)
        a == PyIndex(start, len)
        b == PyIndex(stop, len)
    IN  [src |-> v.src, lo |-> v.lo + a, hi |-> v.lo + Max2(a, b)]

\* compute_distance keeps the number of samples and passes distance matrices through
compute_distance(matrix_X, matrix_Y) == <<matrix_X, matrix_Y>>

-----------------------------------------------------------------------------
(* The engine *)

EngineRaise == [raise |-> TRUE, stat |-> 0, scale |-> 0]
Responses == [raise : {FALSE}, stat : EngineStats, scale : Scales] \cup {EngineRaise}

\* MGC.test_statistic: defined on two [n, n] matrices of the same n
mgc_test_statistic(dist_X, dist_Y, r) ==
    IF Rows(dist_X) # Rows(dist_Y) THEN EngineRaise ELSE r

-----------------------------------------------------------------------------
(* MGCX.__init__ *)

DefaultMaxLag == 0

Omitted == [given |-> FALSE, value |-> None]
Given(v) == [given |-> TRUE, value |-> v]

MGCX_init(arg) == IF arg.given THEN arg.value ELSE Some(DefaultMaxLag)

-----------------------------------------------------------------------------
(* MGCX.test_statistic *)

\* the default applied to None as well
lag_count_default(ml, n) == IF ml # None THEN ml[1] ELSE 0

\* M = self.max_lag if self.max_lag is not None else math.ceil(math.sqrt(n))
lag_count(ml, n) == IF ml # None THEN ml[1] ELSE CeilSqrt(n)

\* dependence_by_lag[0] = np.maximum(0.0, mgc_statistic)   (numerator over n)
lag0_dependence(n, mgc_statistic) == n * Max2(0, mgc_statistic)

\* dependence_by_lag[j] = (n-j)*np.maximum(0.0, mgc_statistic) / n
lag_dependence(n, j, mgc_statistic) == (n - j) * Max2(0, mgc_statistic)

\* a tie replaces the lag found so far
improves_on_ties(d, max_dependence) == d >= max_dependence

\* if dependence_by_lag[j] > max_dependence
improves(d, max_dependence) == d > max_dependence

\* matrix_X[j:n, j:n]
lag_slice_X(matrix_X, j, n) == Slice(matrix_X, j, n)

\* Y cut like X: its first j rows dropped instead of its last j
lag_slice_Y_like_X(matrix_Y, j, n) == Slice(matrix_Y, j, n)

\* matrix_Y[0:(n-j), 0:(n-j)]
lag_slice_Y(matrix_Y, j, n) == Slice(matrix_Y, 0, n - j)

\* self.test_statistic_ = np.sum(dependence_by_lag)
aggregate(dependence_by_lag) == SumSeq(dependence_by_lag)

\* the precondition left out
no_sample_count_check(matrix_X, matrix_Y) == TRUE

\* assert matrix_X.shape[0] == matrix_Y.shape[0]
same_sample_count(matrix_X, matrix_Y) == Rows(matrix_X) = Rows(matrix_Y)

AssertionFailed ==
    [error |-> "AssertionError", n |-> 0, statistic |-> 0, metadata |-> NoMeta,
     calls |-> << >>]

\* lines 94-99: the engine on the full matrices, answered by r
lag0_step(M, n, matrix_X, matrix_Y, r) ==
    LET out == mgc_test_statistic(matrix_X, matrix_Y, r)
        d0 == lag0_dependence(n, out.stat)
    IN  [error |-> IF out.raise THEN "EngineError" ELSE "",
         calls |-> <<[x |-> matrix_X, y |-> matrix_Y, out |-> out]>>,
         dependence_by_lag |-> [i \in 1..(M + 1) |-> IF i = 1 THEN d0 ELSE 0],
         max_dependence |-> d0,
         optimal_lag |-> 0,
         optimal_scale |-> out.scale]

\* lines 102-109: the body of the loop at lag j, the engine answered by r
lag_step(st, j, n, matrix_X, matrix_Y, r) ==
    LET dist_mtx_X == lag_slice_X(matrix_X, j, n)
        dist_mtx_Y == lag_slice_Y(matrix_Y, j, n)
        out == mgc_test_statistic(dist_mtx_X, dist_mtx_Y, r)
        call == [x |-> dist_mtx_X, y |-> dist_mtx_Y, out |-> out]
        d == lag_dependence(n, j, out.stat)
        better == improves(d, st.max_dependence)
    IN  IF st.error # "" THEN st
        ELSE IF out.raise
        THEN [st EXCEPT !.error = "EngineError", !.calls = Append(@, call)]
        ELSE [st EXCEPT
                !.calls = Append(@, call),
                !.dependence_by_lag = [@ EXCEPT ![j + 1] = d],
                !.max_dependence = IF better THEN d ELSE @,
                !.optimal_lag = IF better THEN j ELSE @,
                !.optimal_scale = IF better THEN out.scale ELSE @]

\* lines 112-117: what the call stores and returns (error "" when it returns)
lag_result(st, n) ==
    IF st.error # ""
    THEN [error |-> st.error, n |-> n, statistic |-> 0, metadata |-> NoMeta,
          calls |-> st.calls]
    ELSE [error |-> "", n |-> n,
          statistic |-> aggregate(st.dependence_by_lag),
          metadata |-> [optimal_lag |-> st.optimal_lag,
                        optimal_scale |-> st.optimal_scale,
                        dependence_by_lag |-> st.dependence_by_lag],
          calls |-> st.calls]

\* the engine calls are kept on record only when traced
Record(st, traced) == IF traced THEN st ELSE [st EXCEPT !.calls = << >>]

\* for j in range(1, M+1): the loop states after lags j..M, over every answer
\* of the engine
RECURSIVE lag_loop(_, _, _, _, _, _, _)
lag_loop(states, j, M, n, matrix_X, matrix_Y, traced) ==
    IF j > M THEN states
    ELSE lag_loop({ Record(lag_step(st, j, n, matrix_X, matrix_Y, r), traced)
                    : st \in states, r \in Responses },
                  j + 1, M, n, matrix_X, matrix_Y, traced)

\* The outcomes of test_statistic(matrix_X, matrix_Y) over every answer of the engine
test_statistic(ml, matrix_X, matrix_Y, traced) ==
    IF ~same_sample_count(matrix_X, matrix_Y) THEN {AssertionFailed}
    ELSE
      LET n == Rows(matrix_X)
          dist == compute_distance(matrix_X, matrix_Y)
          M == lag_count(ml, n)
          first == { Record(lag0_step(M, n, dist[1], dist[2], r), traced)
                     : r \in Responses }
      IN  { lag_result(st, n)
            : st \in lag_loop(first, 1, M, n, dist[1], dist[2], traced) }

\* The outcomes on matrices of rx and ry rows, with the engine calls made
TracedOutcomes(ml, rx, ry) ==
    test_statistic(ml, FullView("X", rx), FullView("Y", ry), TRUE)

\* The same without the engine calls: what the caller and the object see
Outcomes(ml, rx, ry) ==
    test_statistic(ml, FullView("X", rx), FullView("Y", ry), FALSE)

-----------------------------------------------------------------------------
(* Block-permutation index generation *)

\* block_size = int(np.ceil(np.sqrt(n)))
block_size_of(n) == CeilSqrt(n)

\* np.random.choice(n, n // block_size + 1): the number of block starts drawn
num_draws(n, block_size) == (n \div block_size) + 1

\* every possible draw of block starts
StartDraws(n, block_size) == [1..num_draws(n, block_size) -> 0..(n - 1)]

\* np.arange(t, t + block_size)
arange(t, block_size) == [k \in 1..block_size |-> t + k - 1]

\* np.r_[[...]].flatten()
RECURSIVE flatten_blocks(_, _)
flatten_blocks(starts, block_size) ==
    IF starts = << >> THEN << >>
    ELSE arange(Head(starts), block_size) \o flatten_blocks(Tail(starts), block_size)

\* [:n]
truncate(s, n) == SubSeq(s, 1, Min2(n, Len(s)))

\* the indices left unwrapped
wrap_omitted(s, n) == s

\* np.mod(permuted_indices, n)
wrap(s, n) == [k \in 1..Len(s) |-> s[k] % n]

\* the worker's generator
worker_permuted_indices(n, block_size, starts) ==
    wrap(truncate(flatten_blocks(starts, block_size), n), n)

\* the generator of _fast_p_value
fast_permuted_indices(n, block_size, starts) ==
    wrap(truncate(flatten_blocks(starts, block_size), n), n)

\* matrix_Y[np.ix_(permuted_indices, permuted_indices)]: the rows of the permuted
\* copy, or -1 when an index falls outside matrix_Y (IndexError)
permuted_rows(matrix_Y, indices) ==
    IF \A k \in 1..Len(indices) : indices[k] >= 0 /\ indices[k] < Rows(matrix_Y)
    THEN Len(indices) ELSE -1

-----------------------------------------------------------------------------
(* The p-value of the exact path *)

\* ties counted as exceedances
is_greater_or_equal(null_stat, test_stat) == null_stat >= test_stat

\* np.greater(test_stats_null, test_statistic)
is_greater(null_stat, test_stat) == null_stat > test_stat

\* np.sum(np.greater(test_stats_null, test_statistic))
RECURSIVE count_greater(_, _)
count_greater(test_stats_null, test_stat) ==
    IF test_stats_null = << >> THEN 0
    ELSE (IF is_greater(Head(test_stats_null), test_stat) THEN 1 ELSE 0)
         + count_greater(Tail(test_stats_null), test_stat)

\* if self.p_value_ == 0.0: self.p_value_ = 1 / replication_factor
floor_p_value(p, replication_factor) ==
    IF p.num = 0 THEN [nan |-> FALSE, num |-> 1, den |-> replication_factor] ELSE p

exact_p_value(test_stats_null, test_stat, replication_factor) ==
    floor_p_value([nan |-> FALSE,
                   num |-> count_greater(test_stats_null, test_stat),
                   den |-> replication_factor],
                  replication_factor)

\* failed repetitions dropped from the batch instead of failing it
batch_ended(ws) == \A i \in DOMAIN ws : ws[i].state # "pending"

\* a batch succeeds when every repetition returned; one exception fails it
batch_ok(ws) == \A i \in DOMAIN ws : ws[i].state = "done"
batch_failed(ws) == \E i \in DOMAIN ws : ws[i].state = "raised"

-----------------------------------------------------------------------------
(* The p-value of the fast path *)

subsample_size == 10

\* 1 - norm.cdf(z) is exactly 0.0 in double precision from z = 8.3 on; ZSat is
\* the first integer z at which it is certainly 0.0
ZSat == 9

PNaN == [nan |-> TRUE, num |-> 0, den |-> 1]
PZero == [nan |-> FALSE, num |-> 0, den |-> 1]
POne == [nan |-> FALSE, num |-> 1, den |-> 1]
PHalf == [nan |-> FALSE, num |-> 1, den |-> 2]
PLower == [nan |-> FALSE, num |-> 1, den |-> 4]   \* some value in (0, 1/2)
PUpper == [nan |-> FALSE, num |-> 3, den |-> 4]   \* some value in (1/2, 1)

\* test_stats_null = np.zeros(num_samples * subsample_size)
null_alloc(num_samples, sub_size) == [k \in 1..(num_samples * sub_size) |-> 0]

RECURSIVE SumSquares(_)
SumSquares(s) == IF s = << >> THEN 0 ELSE Head(s) * Head(s) + SumSquares(Tail(s))

\* mu = np.mean(null); sigma = np.std(null) / np.sqrt(num_samples);
\* 1 - norm.cdf(test_statistic, mu, sigma).
\* test_stat is tn/n and null[k] is a[k]/d.  With L = len(null), S1 = sum a,
\* S2 = sum a^2:  mu = S1/(L d),  std^2 = (L S2 - S1^2)/(L d)^2  and
\* z = (test_stat - mu)/sigma = D sqrt(num_samples) / (n sqrt(V)), where
\* D = tn d L - n S1 and V = L S2 - S1^2.
normal_upper_tail(tn, n, null, d, num_samples) ==
    LET L == Len(null)
        S1 == SumSeq(null)
        V == L * SumSquares(null) - S1 * S1
        D == tn * d * L - n * S1
        z_at_least(k) == num_samples * D * D >= k * k * n * n * V
    IN  IF L = 0 \/ num_samples = 0 \/ V = 0 THEN {PNaN}
        ELSE IF D > 0 /\ z_at_least(ZSat) THEN {PZero}
        ELSE IF D > 0 /\ z_at_least(ZSat - 1) THEN {PZero, PLower}
        ELSE IF D > 0 THEN {PLower}
        ELSE IF D = 0 THEN {PHalf}
        ELSE IF z_at_least(ZSat) THEN {POne}
        ELSE {PUpper, POne}

\* indices = np.arange(subsample_size*i, subsample_size*(i + 1)); m[np.ix_(indices, indices)]
sub_block(m, i, sub_size) ==
    [src |-> m.src, lo |-> m.lo + sub_size * i, hi |-> m.lo + sub_size * (i + 1)]

block_in_range(m, i, sub_size) == sub_size * (i + 1) <= Rows(m)

(* State *)

NoFrame == [op |-> "none", nX |-> 0, nY |-> 0, replication_factor |-> 0,
            is_fast |-> FALSE, backend |-> "none", test_statistic |-> 0,
            block_size |-> 0, num_samples |-> 0, i |-> 0,
            permuted_rows |-> 0, test_stats_null |-> << >>]
NoRet == [error |-> "", kind |-> "none"]
Raised(e) == [error |-> e, kind |-> "raised"]
Returned(k) == [error |-> "", kind |-> k]

CtorArgs == {Omitted, Given(None)} \cup {Given(Some(k)) : k \in 0..MaxLag}
LagSettings == {MGCX_init(a) : a \in CtorArgs}
Sizes == 1..MaxN
FastSizes == subsample_size..(subsample_size + MaxFastExtra)
PermSizes == 1..MaxPermN

\* joblib runs the batch in worker processes, each with its own copy of self
\* ("process"), or, when n_jobs resolves to 1, in the calling process one
\* repetition after the other ("sequential")
Backends == {"process", "sequential"}

\* The outcomes of test_statistic by number of rows, computed once
OutcomeTable ==
    [ml \in LagSettings |->
       [p \in (Sizes \X Sizes) \cup {<<n, n>> : n \in FastSizes \cup {subsample_size}} |->
          Outcomes(ml, p[1], p[2])]]

OutcomesOn(ml, rx, ry) ==
    IF rx \in Sizes \/ rx = ry THEN OutcomeTable[ml][<<rx, ry>>] ELSE Outcomes(ml, rx, ry)

TracedTable ==
    [ml \in LagSettings |-> [p \in Sizes \X Sizes |-> TracedOutcomes(ml, p[1], p[2])]]

\* The row counts a block-permuted copy of an n-row matrix_Y can have, computed once
PermutedRowsTable ==
    [n \in Sizes \cup FastSizes |->
       { permuted_rows(FullView("Y", n),
                       worker_permuted_indices(n, block_size_of(n), starts))
         : starts \in StartDraws(n, block_size_of(n)) }]

FastPermutedRowsTable ==
    [n \in Sizes \cup FastSizes |->
       { permuted_rows(FullView("Y", n),
                       fast_permuted_indices(n, block_size_of(n), starts))
         : starts \in StartDraws(n, block_size_of(n)) }]

Init ==
    /\ ctor_arg \in CtorArgs
    /\ max_lag = MGCX_init(ctor_arg)
    /\ test_statistic_ = Unset
    /\ test_statistic_metadata_ = Unset
    /\ p_value_ = Unset
    /\ p_value_metadata_ = Unset
    /\ pc = "idle"
    /\ frame = NoFrame
    /\ workers = << >>
    /\ ret = NoRet
    /\ engine_calls = << >>
    /\ stat_of = Unset
    /\ perm_n = 0
    /\ permuted_indices = << >>

\* self.test_statistic_metadata_ = {...}; self.test_statistic_ = np.sum(...)
StoreStatistic(out, matrix_X, matrix_Y) ==
    /\ test_statistic_' = [set |-> TRUE, num |-> out.statistic, den |-> out.n]
    /\ test_statistic_metadata_' = [set |-> TRUE, value |-> out.metadata]
    /\ stat_of' = [set |-> TRUE, x |-> matrix_X, y |-> matrix_Y]

KeepStatistic == UNCHANGED <<test_statistic_, test_statistic_metadata_, stat_of>>

\* A caller's test_statistic(X, Y) with X of nX rows and Y of nY rows
test_statistic_call(nX, nY, outcomes) ==
    /\ pc = "idle"
    /\ frame.op # "p_value"
    /\ \E out \in outcomes :
         /\ frame' = [NoFrame EXCEPT !.op = "test_statistic", !.nX = nX, !.nY = nY]
         /\ engine_calls' = out.calls
         /\ IF out.error = ""
            THEN /\ StoreStatistic(out, FullView("X", nX), FullView("Y", nY))
                 /\ ret' = Returned("statistic")
            ELSE /\ KeepStatistic
                 /\ ret' = Raised(out.error)
    /\ UNCHANGED <<ctor_arg, max_lag, p_value_, p_value_metadata_, pc, workers,
                   perm_n, permuted_indices>>

TestStatisticCall(nX, nY) ==
    test_statistic_call(nX, nY, OutcomesOn(max_lag, nX, nY))

\* The same call with the engine calls it made kept in engine_calls
TracedTestStatisticCall(nX, nY) ==
    /\ ~test_statistic_.set
    /\ test_statistic_call(nX, nY, TracedTable[max_lag][<<nX, nY>>])

-----------------------------------------------------------------------------
(* MGCX.p_value *)

\* assert matrix_X.shape[0] == matrix_Y.shape[0]
p_value_same_sample_count(matrix_X, matrix_Y) == Rows(matrix_X) = Rows(matrix_Y)

Pending == [state |-> "pending", ret |-> 0]

\* Entry of p_value up to the dispatch of the batch or the call of _fast_p_value
PValueCall(nX, nY, is_fast) ==
    /\ pc = "idle"
    /\ frame.op # "p_value"
    /\ engine_calls' = << >>
    /\ UNCHANGED <<ctor_arg, max_lag, p_value_, p_value_metadata_, perm_n, permuted_indices>>
    /\ \E replication_factor \in 1..MaxRep :
       \E backend \in IF is_fast THEN {"none"} ELSE Backends :
         LET matrix_X == FullView("X", nX)
             matrix_Y == FullView("Y", nY)
             args == [NoFrame EXCEPT !.op = "p_value", !.nX = nX, !.nY = nY,
                        !.replication_factor = replication_factor,
                        !.is_fast = is_fast, !.backend = backend]
         IN  IF ~p_value_same_sample_count(matrix_X, matrix_Y)
             THEN /\ frame' = args
                  /\ ret' = Raised("AssertionError")
                  /\ KeepStatistic
                  /\ UNCHANGED <<pc, workers>>
             ELSE \E out \in OutcomesOn(max_lag, nX, nY) :
                    IF out.error # ""
                    THEN /\ frame' = args
                         /\ ret' = Raised(out.error)
                         /\ KeepStatistic
                         /\ UNCHANGED <<pc, workers>>
                    ELSE /\ StoreStatistic(out, matrix_X, matrix_Y)
                         /\ frame' = [args EXCEPT !.test_statistic = out.statistic,
                                                  !.block_size = block_size_of(nX)]
                         /\ ret' = NoRet
                         /\ IF is_fast
                            THEN /\ pc' = "fast_permute"
                                 /\ workers' = << >>
                            ELSE /\ pc' = "workers"
                                 /\ workers' = [i \in 1..replication_factor |-> Pending]

\* One repetition of the batch: worker(rep)
Worker(rep) ==
    /\ pc = "workers"
    /\ rep \in DOMAIN workers
    /\ workers[rep].state = "pending"
    /\ frame.backend = "sequential" =>
         \A k \in 1..(rep - 1) : workers[k].state = "done"
    /\ \E rows \in PermutedRowsTable[frame.nX] :
         IF rows < 0
         THEN /\ workers' = [workers EXCEPT ![rep] = [state |-> "raised", ret |-> 0]]
              /\ KeepStatistic
         ELSE \E out \in OutcomesOn(max_lag, frame.nX, rows) :
                IF out.error # ""
                THEN /\ workers' = [workers EXCEPT ![rep] = [state |-> "raised", ret |-> 0]]
                     /\ KeepStatistic
                ELSE /\ workers' = [workers EXCEPT
                                      ![rep] = [state |-> "done", ret |-> out.statistic]]
                     /\ IF frame.backend = "sequential"
                        THEN StoreStatistic(out, FullView("X", frame.nX),
                                            FullView("permuted_Y", rows))
                        ELSE KeepStatistic
    /\ UNCHANGED <<ctor_arg, max_lag, p_value_, p_value_metadata_, pc, frame, ret,
                   engine_calls, perm_n, permuted_indices>>

\* Parallel(...) returned every result: lines 196-201
Join ==
    /\ pc = "workers"
    /\ batch_ok(workers)
    /\ LET test_stats_null == [i \in DOMAIN workers |-> workers[i].ret]
       IN  /\ p_value_' = [set |-> TRUE,
                           value |-> exact_p_value(test_stats_null, frame.test_statistic,
                                                   frame.replication_factor)]
           /\ p_value_metadata_' = [set |-> TRUE, den |-> frame.nX,
                                    null_distribution |-> test_stats_null]
    /\ ret' = Returned("p_value")
    /\ pc' = "idle"
    /\ UNCHANGED <<ctor_arg, max_lag, test_statistic_, test_statistic_metadata_, stat_of,
                   frame, workers, engine_calls, perm_n, permuted_indices>>

\* Parallel(...) re-raises the exception of a repetition in p_value
Abort ==
    /\ pc = "workers"
    /\ batch_failed(workers)
    /\ ret' = Raised("EngineError")
    /\ pc' = "idle"
    /\ UNCHANGED <<ctor_arg, max_lag, test_statistic_, test_statistic_metadata_, stat_of,
                   p_value_, p_value_metadata_, frame, workers, engine_calls,
                   perm_n, permuted_indices>>

-----------------------------------------------------------------------------
(* MGCX._fast_p_value *)

\* lines 204-212: permute once, allocate the null sample
FastPermute ==
    /\ pc = "fast_permute"
    /\ \E rows \in FastPermutedRowsTable[frame.nX] :
         IF rows < 0
         THEN /\ ret' = Raised("IndexError")
              /\ pc' = "idle"
              /\ frame' = frame
         ELSE LET num_samples == frame.nX \div subsample_size
              IN  /\ frame' = [frame EXCEPT
                                 !.num_samples = num_samples,
                                 !.permuted_rows = rows,
                                 !.test_stats_null = null_alloc(num_samples, subsample_size),
                                 !.i = 0]
                  /\ pc' = "fast_loop"
                  /\ ret' = ret
    /\ UNCHANGED <<ctor_arg, max_lag, test_statistic_, test_statistic_metadata_, stat_of,
                   p_value_, p_value_metadata_, workers, engine_calls,
                   perm_n, permuted_indices>>

\* one iteration of the loop of lines 213-217
FastBlock ==
    /\ pc = "fast_loop"
    /\ frame.i < frame.num_samples
    /\ LET sub_matrix_X == sub_block(FullView("X", frame.nX), frame.i, subsample_size)
           sub_matrix_Y == sub_block(FullView("permuted_Y", frame.permuted_rows),
                                     frame.i, subsample_size)
       IN  IF ~block_in_range(FullView("permuted_Y", frame.permuted_rows),
                              frame.i, subsample_size)
           THEN /\ ret' = Raised("IndexError")
                /\ pc' = "idle"
                /\ frame' = frame
                /\ KeepStatistic
           ELSE \E out \in OutcomesOn(max_lag, Rows(sub_matrix_X), Rows(sub_matrix_Y)) :
                  IF out.error # ""
                  THEN /\ ret' = Raised(out.error)
                       /\ pc' = "idle"
                       /\ frame' = frame
                       /\ KeepStatistic
                  ELSE /\ StoreStatistic(out, sub_matrix_X, sub_matrix_Y)
                       /\ frame' = [frame EXCEPT
                                      !.test_stats_null = [@ EXCEPT ![frame.i + 1] = out.statistic],
                                      !.i = @ + 1]
                       /\ UNCHANGED <<pc, ret>>
    /\ UNCHANGED <<ctor_arg, max_lag, p_value_, p_value_metadata_, workers, engine_calls,
                   perm_n, permuted_indices>>

\* lines 219-225: the normal approximation
FastFinish ==
    /\ pc = "fast_loop"
    /\ frame.i = frame.num_samples
    /\ \E p \in normal_upper_tail(frame.test_statistic, frame.nX, frame.test_stats_null,
                                  subsample_size, frame.num_samples) :
         p_value_' = [set |-> TRUE, value |-> p]
    /\ p_value_metadata_' = [set |-> TRUE, den |-> subsample_size,
                             null_distribution |-> frame.test_stats_null]
    /\ ret' = Returned("p_value")
    /\ pc' = "idle"
    /\ UNCHANGED <<ctor_arg, max_lag, test_statistic_, test_statistic_metadata_, stat_of,
                   frame, workers, engine_calls, perm_n, permuted_indices>>

-----------------------------------------------------------------------------
(* Specifications *)

\* One session of a test object: test_statistic any number of times, then one
\* p_value on the exact path
Next ==
    \/ \E nX \in Sizes, nY \in Sizes : TestStatisticCall(nX, nY)
    \/ \E nX \in Sizes, nY \in Sizes : PValueCall(nX, nY, FALSE)
    \/ \E rep \in 1..MaxRep : Worker(rep)
    \/ Join
    \/ Abort

Spec == Init /\ [][Next]_vars

\* The lag search alone, with the engine calls of each call on record
NextStat == \E nX \in Sizes, nY \in Sizes : TracedTestStatisticCall(nX, nY)

SpecStat == Init /\ [][NextStat]_vars

\* The fast path on sample counts around subsample_size
NextFast ==
    \/ \E n \in FastSizes : PValueCall(n, n, TRUE)
    \/ FastPermute
    \/ FastBlock
    \/ FastFinish

SpecFast == Init /\ [][NextFast]_vars

\* The index generators alone
InitPerm ==
    /\ Init
    /\ ctor_arg = Omitted

DrawWorkerPermutation ==
    \E n \in PermSizes : \E starts \in StartDraws(n, block_size_of(n)) :
        /\ perm_n' = n
        /\ permuted_indices' = worker_permuted_indices(n, block_size_of(n), starts)
        /\ frame' = [NoFrame EXCEPT !.op = "worker"]
        /\ UNCHANGED <<ctor_arg, max_lag, test_statistic_, test_statistic_metadata_,
                       p_value_, p_value_metadata_, pc, workers, ret, engine_calls, stat_of>>

DrawFastPermutation ==
    \E n \in PermSizes : \E starts \in StartDraws(n, block_size_of(n)) :
        /\ perm_n' = n
        /\ permuted_indices' = fast_permuted_indices(n, block_size_of(n), starts)
        /\ frame' = [NoFrame EXCEPT !.op = "_fast_p_value"]
        /\ UNCHANGED <<ctor_arg, max_lag, test_statistic_, test_statistic_metadata_,
                       p_value_, p_value_metadata_, pc, workers, ret, engine_calls, stat_of>>

NextPerm == DrawWorkerPermutation \/ DrawFastPermutation

SpecPerm == InitPerm /\ [][NextPerm]_vars

-----------------------------------------------------------------------------
(* Properties *)

PValueReturned == pc = "idle" /\ frame.op = "p_value" /\ ret.kind = "p_value"
StatisticReturned == pc = "idle" /\ frame.op = "test_statistic" /\ ret.kind = "statistic"

\* ceil(sqrt(n)) characterised: the k with (k-1)^2 < n <= k^2
IsCeilSqrt(k, n) == k >= 0 /\ k * k >= n /\ (k = 0 \/ (k - 1) * (k - 1) < n)

RowsOfView(v) == {i \in 0..(v.hi - 1) : i >= v.lo}

\* C1: every p-value p_value returns lies in (0, 1] and is never 0 (nor NaN),
\* on the exact path and on the fast path
C1_PValueInUnitInterval ==
    PValueReturned =>
        /\ ~p_value_.value.nan
        /\ p_value_.value.num > 0
        /\ p_value_.value.num <= p_value_.value.den

\* C2: on the exact path the p-value is the number of null samples strictly
\* greater than the observed statistic over replication_factor, and
\* 1/replication_factor when that number is 0; ties are not counted
C2_ExactPValue ==
    (PValueReturned /\ ~frame.is_fast) =>
        LET null == p_value_metadata_.null_distribution
            c == Cardinality({i \in 1..Len(null) : null[i] > frame.test_statistic})
        IN  /\ Len(null) = frame.replication_factor
            /\ p_value_.value = [nan |-> FALSE,
                                 num |-> IF c = 0 THEN 1 ELSE c,
                                 den |-> frame.replication_factor]

C2_Witness ==
    /\ PValueReturned /\ ~frame.is_fast
    /\ frame.replication_factor = 2
    /\ frame.test_statistic > 0
    /\ p_value_metadata_.null_distribution[1] = frame.test_statistic
    /\ p_value_metadata_.null_distribution[2] < frame.test_statistic
    /\ p_value_.value.num = 1

\* C3: the statistic is the plain sum of dependence_by_lag, of length M+1;
\* entry 0 is max(0, engine(DX, DY)) on the full matrices and entry j is
\* ((n-j)/n) * max(0, engine(DX without its first j rows, DY without its last j rows))
C3_StatisticIsSumOverLags ==
    StatisticReturned =>
        LET n == frame.nX
            dbl == test_statistic_metadata_.value.dependence_by_lag
            M == Len(dbl) - 1
        IN  /\ M >= 0
            /\ max_lag # None => M = max_lag[1]
            /\ Len(engine_calls) = M + 1
            /\ test_statistic_.den = n
            /\ test_statistic_.num = SumSeq(dbl)
            /\ \A j \in 0..M :
                 LET c == engine_calls[j + 1]
                 IN  /\ c.x.src = "X" /\ c.y.src = "Y"
                     /\ RowsOfView(c.x) = {i \in 0..(n - 1) : i >= j}
                     /\ RowsOfView(c.y) = {i \in 0..(n - 1) : i < n - j}
                     /\ ~c.out.raise
                     /\ dbl[j + 1] = (n - j) * (IF c.out.stat > 0 THEN c.out.stat ELSE 0)

C3_Witness ==
    /\ StatisticReturned
    /\ frame.nX = 3
    /\ test_statistic_metadata_.value.dependence_by_lag = <<3, 2, 1>>
    /\ test_statistic_.num = 6

\* C4: optimal_lag lies in 0..M and is the smallest lag at which dependence_by_lag
\* is maximal; optimal_scale is the scale the engine returned at that lag
C4_OptimalLagIsEarliestMaximum ==
    StatisticReturned =>
        LET md == test_statistic_metadata_.value
            dbl == md.dependence_by_lag
            M == Len(dbl) - 1
        IN  /\ md.optimal_lag \in 0..M
            /\ \A j \in 0..M : dbl[j + 1] <= dbl[md.optimal_lag + 1]
            /\ \A j \in 0..(md.optimal_lag - 1) : dbl[j + 1] < dbl[md.optimal_lag + 1]
            /\ md.optimal_scale = engine_calls[md.optimal_lag + 1].out.scale

C4_Witness ==
    /\ StatisticReturned
    /\ test_statistic_metadata_.value.dependence_by_lag = <<0, 2, 0>>
    /\ test_statistic_metadata_.value.optimal_lag = 1
    /\ test_statistic_metadata_.value.optimal_scale = 2
    /\ engine_calls[1].out.scale = 1
    /\ engine_calls[3].out.scale = 1

\* C5 as stated: a test constructed without a max_lag argument searches
\* M = ceil(sqrt(n)) lags, so dependence_by_lag has ceil(sqrt(n)) + 1 entries
C5_DefaultLagIsCeilSqrt ==
    (StatisticReturned /\ ~ctor_arg.given) =>
        IsCeilSqrt(Len(test_statistic_metadata_.value.dependence_by_lag) - 1, frame.nX)

\* C5 amended: with max_lag None the search uses M = ceil(sqrt(n)), so
\* dependence_by_lag has ceil(sqrt(n)) + 1 entries; a test constructed without a
\* max_lag argument has max_lag 0 and dependence_by_lag has one entry
C5_NoneLagIsCeilSqrt ==
    StatisticReturned =>
        LET len == Len(test_statistic_metadata_.value.dependence_by_lag)
        IN  /\ max_lag = None => IsCeilSqrt(len - 1, frame.nX)
            /\ ~ctor_arg.given => len = 1

C5_Witness ==
    /\ StatisticReturned
    /\ max_lag = None
    /\ frame.nX = 3
    /\ Len(test_statistic_metadata_.value.dependence_by_lag) = 3

\* C6: a call of test_statistic or p_value with X and Y of different sample
\* counts raises the assertion error at entry: nothing stored on the object
\* changes, no statistic is computed and no repetition is started
C6_MismatchFailsAtEntry ==
    [][(pc = "idle" /\ frame' # frame /\ frame'.nX # frame'.nY) =>
          /\ ret' = Raised("AssertionError")
          /\ obj' = obj
          /\ stat_of' = stat_of
          /\ pc' = "idle"
          /\ workers' = workers
          /\ engine_calls' = << >>]_vars

C6_Witness ==
    /\ pc = "idle"
    /\ frame.op = "p_value"
    /\ frame.nX # frame.nY
    /\ ret = Raised("AssertionError")
    /\ test_statistic_.set
    /\ stat_of.x = FullView("X", 3)
    /\ ~p_value_.set

\* C7: the null distribution returned has replication_factor entries on the
\* exact path and num_samples = n // subsample_size entries on the fast path
C7_NullDistributionSize ==
    PValueReturned =>
        Len(p_value_metadata_.null_distribution) =
            IF frame.is_fast THEN frame.nX \div subsample_size
            ELSE frame.replication_factor

\* C8: the batch is atomic: once a repetition has raised, p_value can only end
\* by raising, with no p-value returned and self.p_value_ and
\* self.p_value_metadata_ left as they were; a p-value is returned only from a
\* batch in which every repetition returned
C8_BatchIsAtomic ==
    [][(pc = "workers" /\ pc' = "idle") =>
          IF \E i \in DOMAIN workers : workers[i].state = "raised"
          THEN /\ ret'.kind = "raised"
               /\ ret'.error # ""
               /\ p_value_' = p_value_
               /\ p_value_metadata_' = p_value_metadata_
          ELSE /\ ret'.kind = "p_value"
               /\ \A i \in DOMAIN workers : workers[i].state = "done"]_vars

C8_Witness ==
    /\ pc = "idle"
    /\ frame.op = "p_value"
    /\ frame.backend = "process"
    /\ ret.kind = "raised"
    /\ Len(workers) = 2
    /\ workers[1].state = "done"
    /\ workers[2].state = "raised"
    /\ ~p_value_.set
    /\ ~p_value_metadata_.set

\* C9: for block_size = ceil(sqrt(n)) and every draw of block starts, the index
\* sequence of either generator has length exactly n and all values in [0, n)
C9_PermutedIndicesInRange ==
    frame.op \in {"worker", "_fast_p_value"} =>
        /\ Len(permuted_indices) = perm_n
        /\ \A k \in 1..Len(permuted_indices) :
             permuted_indices[k] >= 0 /\ permuted_indices[k] < perm_n

C9_Witness ==
    /\ frame.op = "_fast_p_value"
    /\ perm_n = 7
    /\ permuted_indices = <<5, 6, 0, 6, 0, 1, 2>>

\* C10: test_statistic writes nothing shared between calls, so after p_value
\* has returned the statistic and metadata the object holds are those of the
\* observed X and Y, not of a permuted or subsampled repetition
C10_RepetitionsLeaveObjectAlone ==
    PValueReturned =>
        /\ stat_of.x = FullView("X", frame.nX)
        /\ stat_of.y = FullView("Y", frame.nY)

====
